---- MODULE Spec2Model ----
(***************************************************************************)
(* A model of cbor2's CBOREncoder (src/cbor2/encoder.py): the length       *)
(* packer, encode_int, the type dispatch of encode(), the container        *)
(* encoders with value sharing and cycle detection, and encode_semantic.   *)
(*                                                                         *)
(* Python integers are unbounded.  They are modelled as a sign and a       *)
(* magnitude, the magnitude a sequence of base-65536 limbs, most           *)
(* significant first and without leading zero limbs, so that the           *)
(* comparisons against 2^32 and 2^64 and the divmod(value, 256) loop of    *)
(* encode_int are computed, not assumed.  Bytes are numbers 0..255.        *)
(***************************************************************************)
EXTENDS Integers, Sequences, FiniteSets, TLC

VARIABLES
    heap,               \* the caller's objects: container id -> its type and items
    encoders,           \* self.encoders: the dispatch table, in insertion order
    value_sharing,      \* self.value_sharing
    container_indexes,  \* self.container_indexes: container id -> share index
    container_stack,    \* self.container_stack: set of container ids
    out,                \* bytes written to self.fp by the current top-level call
    frames,             \* the Python call stack below the running encode()
    mode,               \* "idle" | "call" (about to run encode(cur)) |
                        \* "frame" (running in the last frame of frames)
    cur,                \* the argument of the encode() call about to run
    encoder,            \* the local variable `encoder` of encode()
    result,             \* how the last top-level call ended
    calls,              \* number of top-level calls made on the instance
    log,                \* history: the container encoders' visits in this call, each
                        \* <<branch taken, container id, size of container_stack>>
    entry               \* history: the call and the encoder's state when it began

vars == <<heap, encoders, value_sharing, container_indexes, container_stack,
          out, frames, mode, cur, encoder, result, calls, log, entry>>

----------------------------------------------------------------------------
(* Bounds of the model.                                                    *)

\* items per container
MaxLen == 2
\* top-level calls made on one encoder instance
MaxCalls == 2
\* limbs (16 bits each) of the integers given to encode_int
MaxLimbs == 5

----------------------------------------------------------------------------
(* Unbounded integers as limb sequences.                                   *)

Base == 256 * 256

Limbs == 0 .. (Base - 1)

\* a magnitude without leading zero limbs
Normalize(m) ==
    LET RECURSIVE strip(_)
        strip(s) == IF s = <<>> THEN <<>>
                    ELSE IF Head(s) = 0 THEN strip(Tail(s)) ELSE s
    IN strip(m)

\* a < b on normalized magnitudes
MagLess(a, b) ==
    LET RECURSIVE lex(_, _)
        lex(x, y) == IF x = <<>> THEN FALSE
                     ELSE IF Head(x) # Head(y) THEN Head(x) < Head(y)
                     ELSE lex(Tail(x), Tail(y))
    IN IF Len(a) # Len(b) THEN Len(a) < Len(b) ELSE lex(a, b)

\* m - 1 for a magnitude m >= 1
MagDec(m) ==
    LET RECURSIVE dec(_)
        dec(s) == IF s[Len(s)] > 0
                  THEN [s EXCEPT ![Len(s)] = @ - 1]
                  ELSE Append(dec(SubSeq(s, 1, Len(s) - 1)), Base - 1)
    IN Normalize(dec(m))

\* divmod(m, 256): quotient (a magnitude) and remainder (a byte)
MagDivMod256(m) ==
    LET RECURSIVE go(_, _, _)
        go(s, carry, q) ==
            IF s = <<>> THEN [q |-> Normalize(q), r |-> carry]
            ELSE LET c == carry * Base + Head(s)
                 IN go(Tail(s), c % 256, Append(q, c \div 256))
    IN go(m, 0, <<>>)

\* a small natural number as a magnitude
Mag(k) == IF k = 0 THEN <<>> ELSE <<k>>

\* the Python integer k, for 0 <= k < 65536
Int_(k) == [neg |-> FALSE, mag |-> Mag(k)]

TwoTo8 == <<256>>
TwoTo16 == <<1, 0>>
TwoTo32 == <<1, 0, 0>>
TwoTo64 == <<1, 0, 0, 0, 0>>

\* struct.pack of an unsigned big-endian field of `width` bytes
PackUnsigned(width, m) ==
    LET RECURSIVE bytes(_)
        bytes(s) == IF s = <<>> THEN <<>>
                    ELSE <<Head(s) \div 256, Head(s) % 256>> \o bytes(Tail(s))
        b == bytes(m)
        pad == [i \in 1 .. width |-> 0] \o b
    IN SubSeq(pad, Len(pad) - width + 1, Len(pad))

\* a | b on bytes
BitOr(a, b) ==
    LET RECURSIVE bor(_, _)
        bor(x, y) == IF x = 0 THEN y
                     ELSE IF y = 0 THEN x
                     ELSE (IF x % 2 = 1 \/ y % 2 = 1 THEN 1 ELSE 0)
                          + 2 * bor(x \div 2, y \div 2)
    IN bor(a, b)

----------------------------------------------------------------------------
(* encode_length and encode_int.                                           *)

\* encode_length(major_tag, length), length a magnitude
encode_length(major_tag, length) ==
    IF MagLess(length, Mag(24))
        THEN <<BitOr(major_tag, IF length = <<>> THEN 0 ELSE length[1])>>
    ELSE IF MagLess(length, TwoTo8)
        THEN <<BitOr(major_tag, 24)>> \o PackUnsigned(1, length)
    ELSE IF MagLess(length, TwoTo16)
        THEN <<BitOr(major_tag, 25)>> \o PackUnsigned(2, length)
    ELSE IF MagLess(length, TwoTo32)
        THEN <<BitOr(major_tag, 26)>> \o PackUnsigned(4, length)
    ELSE <<BitOr(major_tag, 27)>> \o PackUnsigned(8, length)

\* the while loop of encode_int: the bytes of a magnitude, most significant first
BignumBytes(m) ==
    LET RECURSIVE loop(_, _)
        loop(value, values) ==
            IF value = <<>> THEN values
            ELSE LET d == MagDivMod256(value)
                 IN loop(d.q, <<d.r>> \o values)
    IN loop(m, <<>>)

\* encode_bytestring(value)
encode_bytestring(value) == encode_length(64, Mag(Len(value))) \o value

\* the bignum branch of encode_int: encode_semantic(major_type, bytestring), whose
\* payload encode() hands to encode_bytestring
encode_bignum(value) ==
    LET major_type == IF value.neg THEN 3 ELSE 2
        m == IF value.neg THEN MagDec(value.mag) ELSE value.mag
    IN encode_length(192, Mag(major_type)) \o encode_bytestring(BignumBytes(m))

\* encode_int with the lower bound of the 64-bit range off by one (<= for <)
encode_int_WrongBound(value) ==
    IF (~value.neg /\ ~MagLess(value.mag, TwoTo64))
       \/ (value.neg /\ ~MagLess(value.mag, TwoTo64))
        THEN encode_bignum(value)
    ELSE IF ~value.neg
        THEN encode_length(0, value.mag)
    ELSE encode_length(32, MagDec(value.mag))

\* encode_int(value): the bytes it writes
encode_int(value) ==
    IF (~value.neg /\ ~MagLess(value.mag, TwoTo64))
       \/ (value.neg /\ MagLess(TwoTo64, value.mag))
        THEN encode_bignum(value)
    ELSE IF ~value.neg
        THEN encode_length(0, value.mag)
    ELSE encode_length(32, MagDec(value.mag))

----------------------------------------------------------------------------
(* Values.  A value is a record: t its Python type, id the identity of a   *)
(* container (0 for a leaf), n the number an int or bool carries.          *)

Zero == [neg |-> FALSE, mag |-> <<>>]

\* a reference to the container heap[i]
Ref(i) == [t |-> "ref", id |-> i, n |-> Zero]

IntV(k) == [t |-> "int", id |-> 0, n |-> Int_(k)]

\* True
BoolV == [t |-> "bool", id |-> 0, n |-> Int_(1)]

\* an instance of a user-defined subclass of int
MyIntV == [t |-> "MyInt", id |-> 0, n |-> Int_(1)]

\* an instance of a class no table entry covers
ObjV == [t |-> "object", id |-> 0, n |-> Zero]

\* a datetime without tzinfo
NaiveV == [t |-> "datetime", id |-> 0, n |-> Zero]

\* Fraction(1, 2)
FracV == [t |-> "Fraction", id |-> 0, n |-> Zero]

\* CBORTag(99, 1)
TagV == [t |-> "CBORTag", id |-> 0, n |-> Int_(1)]

\* the identity of the list [numerator, denominator] that encode_rational builds
TempId == 0

\* the list encode_rational builds for Fraction(1, 2)
RationalPayload == [t |-> "list", items |-> <<IntV(1), IntV(2)>>]

\* obj.__class__
TypeOf(v) == IF v.t = "ref" THEN heap[v.id].t ELSE v.t

\* the direct base classes (and registered abstract base classes) of a type
Bases(t) ==
    CASE t = "bool" -> {"int"}
      [] t = "MyInt" -> {"int"}
      [] t = "MyList" -> {"list"}
      [] t = "OrderedDict" -> {"dict"}
      [] t = "list" -> {"Sequence"}
      [] t = "tuple" -> {"Sequence"}
      [] t = "unicode" -> {"Sequence"}
      [] t = "bytes" -> {"Sequence"}
      [] t = "bytearray" -> {"Sequence"}
      [] t = "UserSeq" -> {"Sequence"}
      [] t = "dict" -> {"Mapping"}
      [] t = "UserMap" -> {"Mapping"}
      [] t = "datetime" -> {"date"}
      [] OTHER -> {}

RECURSIVE Ancestors(_)
Ancestors(t) == {t, "object"} \cup UNION {Ancestors(b) : b \in Bases(t)}

\* issubclass(t, u)
IsSubclass(t, u) == u \in Ancestors(t)

----------------------------------------------------------------------------
(* The dispatch table.                                                     *)

default_encoders ==
    << <<"unicode", "encode_string">>,
       <<"bytes", "encode_bytestring">>,
       <<"bytearray", "encode_bytearray">>,
       <<"int", "encode_int">>,
       <<"long", "encode_int">>,
       <<"float", "encode_float">>,
       <<"Decimal", "encode_decimal">>,
       <<"bool", "encode_boolean">>,
       <<"NoneType", "encode_none">>,
       <<"undefined", "encode_undefined">>,
       <<"tuple", "encode_array">>,
       <<"list", "encode_array">>,
       <<"dict", "encode_map">>,
       <<"Mapping", "encode_map">>,
       <<"Sequence", "encode_array">>,
       <<"datetime", "encode_datetime">>,
       <<"date", "encode_date">>,
       <<"regex", "encode_regexp">>,
       <<"Fraction", "encode_rational">>,
       <<"Message", "encode_mime">>,
       <<"UUID", "encode_uuid">>,
       <<"CBORTag", "encode_custom_tag">> >>

\* the index of key t in an ordered mapping, 0 when absent
KeyIndex(table, t) ==
    LET I == {i \in DOMAIN table : table[i][1] = t}
    IN IF I = {} THEN 0 ELSE CHOOSE i \in I : TRUE

\* OrderedDict.update: an existing key keeps its place, a new key goes last
TableUpdate(table, overrides) ==
    LET RECURSIVE upd(_, _)
        upd(tb, ov) ==
            IF ov = <<>> THEN tb
            ELSE LET k == KeyIndex(tb, Head(ov)[1])
                 IN upd(IF k = 0 THEN Append(tb, Head(ov))
                        ELSE [tb EXCEPT ![k] = Head(ov)],
                        Tail(ov))
    IN upd(table, overrides)

\* __init__: the instance's table
MakeEncoders(overrides) ==
    IF overrides # <<>> THEN TableUpdate(default_encoders, overrides)
    ELSE default_encoders

\* encode() without its exact-type lookup: the subclass scan alone
Resolve_ScanOnly(table, obj_type) ==
    LET RECURSIVE scan(_)
        scan(i) == IF i > Len(table) THEN "raise"
                   ELSE IF IsSubclass(obj_type, table[i][1]) THEN table[i][2]
                   ELSE scan(i + 1)
    IN scan(1)

\* encode(): the encoder chosen for a runtime type, "raise" when there is none
Resolve(table, obj_type) ==
    LET RECURSIVE scan(_)
        scan(i) == IF i > Len(table) THEN "raise"
                   ELSE IF IsSubclass(obj_type, table[i][1]) THEN table[i][2]
                   ELSE scan(i + 1)
        k == KeyIndex(table, obj_type)
    IN IF k # 0 THEN table[k][2] ELSE scan(1)

----------------------------------------------------------------------------
(* The encoder as a state machine.  encode() recurses through the          *)
(* container encoders and encode_semantic; `frames` holds the suspended    *)
(* callers.  A frame is a record: k its kind ("array", "map" or            *)
(* "semantic"), id and pos the container being iterated and how many of    *)
(* its items have been handed to encode(), saved and disable the locals    *)
(* of encode_semantic.                                                     *)

\* the tag used for top-level encode_semantic calls
SomeTag == 99

\* the byte the caller-supplied encoder writes
CustomByte == 224

\* what the for loop of a container encoder hands to encode(), in order: the items of
\* an array; key, value, key, value ... of a map (the keys of a map are 0, 1, ...)
LoopItems(k, id) ==
    LET items == heap[id].items
    IN IF k = "array" THEN items
       ELSE [i \in 1 .. 2 * Len(items) |->
                IF i % 2 = 1 THEN IntV((i - 1) \div 2) ELSE items[i \div 2]]

\* an exception leaves encode(): every frame is unwound, and nothing else
\* happens (no frame has a finally clause or an except clause)
Raise(kind) ==
    /\ frames' = <<>>
    /\ mode' = "idle"
    /\ result' = kind

\* encode_semantic(tag, value, disable_value_sharing), up to its call of
\* encode(value); fp holds `written` when it starts
SemanticEntry(written, tag, value, disable_value_sharing) ==
    /\ frames' = Append(frames, [k |-> "semantic", id |-> 0, pos |-> 0,
                                 saved |-> value_sharing,
                                 disable |-> disable_value_sharing])
    /\ value_sharing' = IF disable_value_sharing THEN FALSE ELSE value_sharing
    /\ out' = written \o encode_length(192, Mag(tag))
    /\ cur' = value
    /\ mode' = "call"

\* container_indexes left as it was: the share index is not stored
SetIndex_NotStored(indexes, value_id, index) == indexes

\* container_indexes with container_indexes[value_id] = index
SetIndex(indexes, value_id, index) ==
    [c \in DOMAIN indexes \cup {value_id} |->
        IF c = value_id THEN index ELSE indexes[c]]

\* the share index encode_array / encode_map assign to a new container
NewIndex == Cardinality(container_stack)

\* no shareable marker is written
ShareableMarker_Missing == <<>>

\* the header that marks the container that follows as shareable
ShareableMarker == encode_length(216, Mag(28))

\* _in_stack, entry: container_stack.add(container_id)
StackAdd(stack, container_id) == stack \cup {container_id}

\* encode_array / encode_map (they differ in the major tag and the loop only), up
\* to the first iteration of the loop
ContainerEntry(major_tag, k) ==
    LET value_id == cur.id
        length == Mag(Len(heap[value_id].items))
        body == /\ container_stack' = StackAdd(container_stack, value_id)
                /\ frames' = Append(frames, [k |-> k, id |-> value_id, pos |-> 0,
                                             saved |-> FALSE, disable |-> FALSE])
                /\ mode' = "frame"
                /\ UNCHANGED result
    IN IF value_sharing
       THEN IF value_id \notin DOMAIN container_indexes
            THEN /\ container_indexes' =
                        SetIndex(container_indexes, value_id, NewIndex)
                 /\ out' = out \o ShareableMarker
                               \o encode_length(major_tag, length)
                 /\ log' = Append(log, <<"share", value_id, Cardinality(container_stack)>>)
                 /\ body
            ELSE /\ out' = out \o encode_length(216, Mag(29))
                               \o encode_int(Int_(container_indexes[value_id]))
                 /\ log' = Append(log, <<"ref", value_id, Cardinality(container_stack)>>)
                 /\ mode' = "frame"
                 /\ UNCHANGED <<container_indexes, container_stack, frames, result>>
       ELSE IF value_id \in container_stack
            THEN /\ Raise("cycle")
                 /\ log' = Append(log, <<"cycle", value_id, Cardinality(container_stack)>>)
                 /\ UNCHANGED <<container_indexes, container_stack, out>>
            ELSE /\ out' = out \o encode_length(major_tag, length)
                 /\ log' = Append(log, <<"plain", value_id, Cardinality(container_stack)>>)
                 /\ body
                 /\ UNCHANGED container_indexes

\* encode(obj) dispatching to encode_array
EncodeArray ==
    /\ mode = "call"
    /\ Resolve(encoders, TypeOf(cur)) = "encode_array"
    /\ encoder' = "encode_array"
    /\ ContainerEntry(128, "array")
    /\ UNCHANGED <<heap, encoders, value_sharing, cur, calls, entry>>

\* encode(obj) dispatching to encode_map
EncodeMap ==
    /\ mode = "call"
    /\ Resolve(encoders, TypeOf(cur)) = "encode_map"
    /\ encoder' = "encode_map"
    /\ ContainerEntry(160, "map")
    /\ UNCHANGED <<heap, encoders, value_sharing, cur, calls, entry>>

\* the for loop of encode_array / encode_map: the next self.encode(item)
NextItem ==
    /\ mode = "frame"
    /\ frames # <<>>
    /\ LET f == frames[Len(frames)]
       IN /\ f.k \in {"array", "map"}
          /\ f.pos < Len(LoopItems(f.k, f.id))
          /\ cur' = LoopItems(f.k, f.id)[f.pos + 1]
          /\ frames' = [frames EXCEPT ![Len(frames)].pos = f.pos + 1]
    /\ mode' = "call"
    /\ UNCHANGED <<heap, encoders, value_sharing, container_indexes,
                   container_stack, out, encoder, result, calls, log, entry>>

\* _in_stack without the remove: the container stays on the stack
StackRemove_Skipped(stack, container_id) == stack

\* _in_stack, exit: container_stack.remove(container_id), a KeyError when absent
StackRemove(stack, container_id) == stack \ {container_id}

\* the loop of encode_array / encode_map is over: _in_stack resumes after its yield
ExitStack ==
    /\ mode = "frame"
    /\ frames # <<>>
    /\ LET f == frames[Len(frames)]
       IN /\ f.k \in {"array", "map"}
          /\ f.pos = Len(LoopItems(f.k, f.id))
          /\ IF f.id \in container_stack
             THEN /\ container_stack' = StackRemove(container_stack, f.id)
                  /\ frames' = SubSeq(frames, 1, Len(frames) - 1)
                  /\ UNCHANGED <<mode, result>>
             ELSE /\ Raise("KeyError")
                  /\ UNCHANGED container_stack
    /\ UNCHANGED <<heap, encoders, value_sharing, container_indexes, out, cur,
                   encoder, calls, log, entry>>

\* value_sharing after encode_semantic's call of encode(value) has returned
RestoreSharing(f) == IF f.disable THEN f.saved ELSE value_sharing

\* encode_semantic after its call of encode(value) has returned
SemanticExit ==
    /\ mode = "frame"
    /\ frames # <<>>
    /\ LET f == frames[Len(frames)]
       IN /\ f.k = "semantic"
          /\ value_sharing' = RestoreSharing(f)
    /\ frames' = SubSeq(frames, 1, Len(frames) - 1)
    /\ UNCHANGED <<heap, encoders, container_indexes, container_stack, out, mode,
                   cur, encoder, result, calls, log, entry>>

\* a leaf encoder has written its bytes and returned
LeafDone(name, bytes) ==
    /\ encoder' = name
    /\ out' = out \o bytes
    /\ mode' = "frame"
    /\ UNCHANGED <<heap, encoders, value_sharing, container_indexes,
                   container_stack, frames, cur, result, calls, log, entry>>

\* encode(obj) dispatching to encode_int
EncodeInt ==
    /\ mode = "call"
    /\ Resolve(encoders, TypeOf(cur)) = "encode_int"
    /\ LeafDone("encode_int", encode_int(cur.n))

\* encode(obj) dispatching to encode_boolean
EncodeBoolean ==
    /\ mode = "call"
    /\ Resolve(encoders, TypeOf(cur)) = "encode_boolean"
    /\ LeafDone("encode_boolean", IF cur.n # Zero THEN <<245>> ELSE <<244>>)

\* encode(obj) dispatching to an encoder the caller supplied, which writes one byte
EncodeCustom ==
    /\ mode = "call"
    /\ Resolve(encoders, TypeOf(cur)) = "custom"
    /\ LeafDone("custom", <<CustomByte>>)

\* encode(obj) dispatching to encode_datetime, for a naive datetime and an
\* encoder without a default timezone
EncodeDatetime ==
    /\ mode = "call"
    /\ Resolve(encoders, TypeOf(cur)) = "encode_datetime"
    /\ cur = NaiveV
    /\ encoder' = "encode_datetime"
    /\ Raise("naive")
    /\ UNCHANGED <<heap, encoders, value_sharing, container_indexes,
                   container_stack, out, cur, calls, log, entry>>

\* encode(obj) dispatching to encode_rational
EncodeRational ==
    /\ mode = "call"
    /\ Resolve(encoders, TypeOf(cur)) = "encode_rational"
    /\ encoder' = "encode_rational"
    /\ SemanticEntry(out, 30, Ref(TempId), TRUE)
    /\ UNCHANGED <<heap, encoders, container_indexes, container_stack, result,
                   calls, log, entry>>

\* encode(obj) dispatching to encode_custom_tag, for CBORTag(tag, n) with n an int
EncodeCustomTag ==
    /\ mode = "call"
    /\ Resolve(encoders, TypeOf(cur)) = "encode_custom_tag"
    /\ encoder' = "encode_custom_tag"
    /\ SemanticEntry(out, SomeTag, [t |-> "int", id |-> 0, n |-> cur.n], FALSE)
    /\ UNCHANGED <<heap, encoders, container_indexes, container_stack, result,
                   calls, log, entry>>

\* encode(obj) finding no encoder
Unsupported ==
    /\ mode = "call"
    /\ Resolve(encoders, TypeOf(cur)) = "raise"
    /\ Raise("unsupported")
    /\ UNCHANGED <<heap, encoders, value_sharing, container_indexes,
                   container_stack, out, cur, encoder, calls, log, entry>>

\* what the caller passes to a top-level call
Roots == {Ref(1), Ref(2)}

\* the record of a top-level call as it begins
Began(op, root, disable) ==
    /\ entry' = [op |-> op, root |-> root, disable |-> disable,
                 sharing |-> value_sharing, indexes |-> container_indexes,
                 stack |-> container_stack]
    /\ log' = <<>>
    /\ result' = "running"
    /\ calls' = calls + 1

\* the caller calls encoder.encode(obj)
Encode ==
    /\ mode = "idle"
    /\ calls < MaxCalls
    /\ \E obj \in Roots :
        /\ cur' = obj
        /\ mode' = "call"
        /\ frames' = <<>>
        /\ out' = <<>>
        /\ Began("encode", obj, FALSE)
    /\ UNCHANGED <<heap, encoders, value_sharing, container_indexes,
                   container_stack, encoder>>

\* the caller calls encoder.encode_semantic(tag, value, True)
EncodeSemantic ==
    /\ mode = "idle"
    /\ calls < MaxCalls
    /\ \E value \in {Ref(1)} :
        /\ SemanticEntry(<<>>, SomeTag, value, TRUE)
        /\ Began("encode_semantic", value, TRUE)
    /\ UNCHANGED <<heap, encoders, container_indexes, container_stack, encoder>>

\* the top-level call returns to the caller
Return ==
    /\ mode = "frame"
    /\ frames = <<>>
    /\ mode' = "idle"
    /\ result' = "ok"
    /\ UNCHANGED <<heap, encoders, value_sharing, container_indexes,
                   container_stack, out, frames, cur, encoder, calls, log, entry>>

Next ==
    \/ Encode
    \/ EncodeSemantic
    \/ EncodeArray
    \/ EncodeMap
    \/ NextItem
    \/ ExitStack
    \/ SemanticExit
    \/ EncodeInt
    \/ EncodeBoolean
    \/ EncodeCustom
    \/ EncodeDatetime
    \/ EncodeRational
    \/ EncodeCustomTag
    \/ Unsupported
    \/ Return

----------------------------------------------------------------------------
(* Initial states: a freshly constructed encoder and the caller's objects. *)

\* the sequences over S of length at most n
SeqsUpTo(S, n) == UNION {[1 .. k -> S] : k \in 0 .. n}

\* the encoder after __init__, given the encoders argument
Constructed(overrides) ==
    /\ encoders = MakeEncoders(overrides)
    /\ container_indexes = <<>>
    /\ container_stack = {}
    /\ out = <<>>
    /\ frames = <<>>
    /\ mode = "idle"
    /\ encoder = "None"
    /\ result = "none"
    /\ calls = 0
    /\ log = <<>>
    /\ entry = [op |-> "none", root |-> Ref(1), disable |-> FALSE,
                sharing |-> value_sharing, indexes |-> <<>>, stack |-> {}]

\* object graphs: container 1 holds up to MaxLen items, each container 2,
\* container 3 or a leaf; container 2 holds one fewer, each any of the three
\* containers or a leaf; container 3 is empty
GraphInit ==
    /\ value_sharing \in BOOLEAN
    /\ Constructed(<<>>)
    /\ cur = Ref(1)
    /\ \E t \in {"list", "dict"}, leaf \in {IntV(1), ObjV} :
        \E i1 \in SeqsUpTo({Ref(2), Ref(3), leaf}, MaxLen),
           i2 \in SeqsUpTo({Ref(1), Ref(2), Ref(3), leaf}, MaxLen - 1) :
            heap = [i \in 0 .. 3 |->
                      CASE i = TempId -> RationalPayload
                        [] i = 1 -> [t |-> t, items |-> i1]
                        [] i = 2 -> [t |-> t, items |-> i2]
                        [] OTHER -> [t |-> t, items |-> <<>>]]

\* the types of the containers handed to the encoder
ContainerTypes ==
    {"list", "tuple", "dict", "MyList", "OrderedDict", "UserSeq", "UserMap"}

\* the encoders arguments given to __init__
Overrides ==
    { <<>>,
      << <<"int", "custom">> >>,
      << <<"MyList", "custom">> >>,
      << <<"Sequence", "custom">> >>,
      << <<"object", "custom">> >>,
      << <<"MyInt", "custom">>, <<"list", "custom">> >> }

\* typed objects: container 1 of any container type holds one item of any type
TypesInit ==
    /\ value_sharing \in BOOLEAN
    /\ \E overrides \in Overrides : Constructed(overrides)
    /\ cur = Ref(1)
    /\ \E t \in ContainerTypes,
          item \in {IntV(1), BoolV, MyIntV, ObjV, NaiveV, FracV, TagV, Ref(2)} :
            heap = [i \in 0 .. 3 |->
                      CASE i = TempId -> RationalPayload
                        [] i = 1 -> [t |-> t, items |-> <<item>>]
                        [] OTHER -> [t |-> "list", items |-> <<>>]]

Init == GraphInit \/ TypesInit

Spec == Init /\ [][Next]_vars

\* a call of encode() runs to its end: Python runs the interpreter's next step
FairSpec == Spec /\ WF_vars(Next)

\* sanity: the shape of the state
TypeOK ==
    /\ mode \in {"idle", "call", "frame"}
    /\ value_sharing \in BOOLEAN
    /\ container_stack \subseteq 0 .. 3
    /\ DOMAIN container_indexes \subseteq 0 .. 3
    /\ calls \in 0 .. MaxCalls
    /\ mode = "idle" => frames = <<>>
    /\ mode = "call" =>
          Resolve(encoders, TypeOf(cur)) \in
              {"encode_array", "encode_map", "encode_int", "encode_boolean",
               "custom", "encode_datetime", "encode_rational",
               "encode_custom_tag", "raise"}

----------------------------------------------------------------------------
(* encode_int on its own: the caller calls encoder.encode_int(value) on a  *)
(* fresh encoder, for integers around every boundary of the size classes.  *)

\* the magnitudes given to encode_int: 0, every one-limb boundary, and for each
\* longer length the smallest and largest magnitudes and their neighbours
IntMags ==
    {<<>>}
    \cup {<<d>> : d \in {1, 23, 24, 255, 256, Base - 1}}
    \cup {<<h>> \o [i \in 1 .. (len - 2) |-> f] \o <<l>> :
            len \in 2 .. MaxLimbs, h \in {1, 255, 256, Base - 1},
            f \in {0, Base - 1}, l \in {0, 1, 255, Base - 1}}

IntInputs ==
    {[neg |-> FALSE, mag |-> m] : m \in IntMags}
    \cup {[neg |-> TRUE, mag |-> m] : m \in IntMags \ {<<>>}}

IntInit ==
    /\ value_sharing \in BOOLEAN
    /\ Constructed(<<>>)
    /\ heap = [i \in 0 .. 3 |-> [t |-> "list", items |-> <<>>]]
    /\ \E v \in IntInputs : cur = [t |-> "int", id |-> 0, n |-> v]

\* the caller calls encoder.encode_int(value)
CallEncodeInt ==
    /\ mode = "idle"
    /\ calls = 0
    /\ out' = encode_int(cur.n)
    /\ result' = "ok"
    /\ calls' = 1
    /\ entry' = [entry EXCEPT !.op = "encode_int", !.root = cur]
    /\ UNCHANGED <<heap, encoders, value_sharing, container_indexes,
                   container_stack, frames, mode, cur, encoder, log>>

IntNext == CallEncodeInt

SpecInt == IntInit /\ [][IntNext]_vars

----------------------------------------------------------------------------
(* Reading an encoded item back, written from the wire format (RFC 7049    *)
(* section 2): the claims compare what the encoder wrote with it.          *)

\* the number of argument bytes that follow an initial byte
ArgWidth(initial) ==
    LET ai == initial % 32
    IN IF ai < 24 THEN 0
       ELSE IF ai = 24 THEN 1
       ELSE IF ai = 25 THEN 2
       ELSE IF ai = 26 THEN 4
       ELSE 8

\* the magnitude a big-endian byte string stands for
FromBytes(bs) ==
    LET even == IF Len(bs) % 2 = 1 THEN <<0>> \o bs ELSE bs
    IN Normalize([i \in 1 .. (Len(even) \div 2) |->
                     even[2 * i - 1] * 256 + even[2 * i]])

\* the argument of the item head at the start of bs
ArgOf(bs) ==
    IF bs[1] % 32 < 24 THEN Mag(bs[1] % 32)
    ELSE FromBytes(SubSeq(bs, 2, 1 + ArgWidth(bs[1])))

\* the head at the start of bs is in the smallest size class that holds its argument
MinimalHead(bs) ==
    LET w == ArgWidth(bs[1])
        a == ArgOf(bs)
    IN /\ w = 1 => ~MagLess(a, <<24>>)
       /\ w = 2 => Len(a) = 1 /\ a[1] >= 256
       /\ w = 4 => Len(a) = 2
       /\ w = 8 => Len(a) \in {3, 4}

\* m + 1
MagSucc(m) ==
    LET RECURSIVE inc(_)
        inc(s) == IF s = <<>> THEN <<1>>
                  ELSE IF s[Len(s)] < Base - 1
                       THEN [s EXCEPT ![Len(s)] = @ + 1]
                       ELSE Append(inc(SubSeq(s, 1, Len(s) - 1)), 0)
    IN inc(m)

\* bs is one item of the given major type and nothing more, in the smallest size
\* class, and its argument is the magnitude m
IsHeadOf(bs, major, m) ==
    /\ Len(bs) = 1 + ArgWidth(bs[1])
    /\ bs[1] \div 32 = major
    /\ bs[1] % 32 <= 27
    /\ MinimalHead(bs)
    /\ ArgOf(bs) = m

\* the content of the byte string that follows a one-byte tag at the start of bs
TaggedBytes(bs) ==
    LET str == Tail(bs)
    IN SubSeq(str, 2 + ArgWidth(str[1]), Len(str))

\* bs is the tag byte followed by one byte string, which stands for m and has no
\* leading zero byte
IsBignumOf(bs, tagbyte, m) ==
    /\ Len(bs) >= 2
    /\ bs[1] = tagbyte
    /\ LET str == Tail(bs)
           payload == TaggedBytes(bs)
       IN /\ str[1] \div 32 = 2
          /\ Len(str) >= 1 + ArgWidth(str[1])
          /\ MinimalHead(str)
          /\ ArgOf(str) = Mag(Len(payload))
          /\ payload # <<>>
          /\ payload[1] # 0
          /\ FromBytes(payload) = m

\* the magnitude an encoded integer carries: the argument of a major type 0 or 1
\* head, the byte string of a bignum
CarriedMag(bs) ==
    IF bs[1] \div 32 \in {0, 1} THEN ArgOf(bs) ELSE FromBytes(TaggedBytes(bs))

\* C6: encode_int writes, for 0 <= n < 2^64, major type 0 with argument n in the
\* smallest size class; for -2^64 <= n < 0, major type 1 with argument -n-1 in the
\* smallest size class; for n >= 2^64, tag 2 (byte c2) and for n < -2^64, tag 3
\* (byte c3), followed by one byte string that is the big-endian form, without
\* leading zero bytes, of n and of -n-1.
C6_EncodeIntReference ==
    (calls = 1 /\ entry.op = "encode_int") =>
        LET n == cur.n
            fits == Len(n.mag) <= 4
        IN IF ~n.neg
           THEN IF fits THEN IsHeadOf(out, 0, n.mag)
                ELSE IsBignumOf(out, 194, n.mag)
           ELSE /\ MagSucc(CarriedMag(out)) = n.mag
                /\ IF fits \/ n.mag = <<1, 0, 0, 0, 0>>
                   THEN IsHeadOf(out, 1, CarriedMag(out))
                   ELSE IsBignumOf(out, 195, CarriedMag(out))

\* C6 witness: encode_int has written a negative bignum
C6_Witness ==
    /\ calls = 1
    /\ entry.op = "encode_int"
    /\ cur.n.neg
    /\ Len(cur.n.mag) = 5
    /\ out[1] = 195

----------------------------------------------------------------------------
(* What the claims speak of.                                               *)

\* the containers whose encode_array / encode_map call is suspended: the
\* containers that contain the value being encoded
Enclosing ==
    {frames[i].id : i \in {j \in DOMAIN frames : frames[j].k \in {"array", "map"}}}

\* this step is encode() running a container encoder on a container
ContainerVisit ==
    /\ mode = "call"
    /\ cur.t = "ref"
    /\ encoder' \in {"encode_array", "encode_map"}

\* the length-prefix byte of the container being visited (at most 23 items)
PrefixByte ==
    (IF encoder' = "encode_array" THEN 128 ELSE 160) + Len(heap[cur.id].items)

\* this step suspends the container encoder of cur in its loop: the body follows
BodyBegins ==
    /\ Len(frames') = Len(frames) + 1
    /\ SubSeq(frames', 1, Len(frames)) = frames
    /\ frames'[Len(frames')].id = cur.id
    /\ frames'[Len(frames')].pos = 0
    /\ mode' = "frame"

\* the containers that received a shareable marker in this top-level call
SharedInCall == {log[i][2] : i \in {j \in DOMAIN log : log[j][1] = "share"}}

\* how many times the body of container c was written in this top-level call
BodyCount(c) ==
    Cardinality({i \in DOMAIN log :
                    log[i][1] \in {"share", "plain"} /\ log[i][2] = c})

\* the containers reachable from the containers in S
RECURSIVE Reachable(_)
Reachable(S) ==
    LET more == S \cup {v.id : v \in UNION {{heap[c].items[i] :
                              i \in DOMAIN heap[c].items} : c \in S} \cap
                              {Ref(i) : i \in DOMAIN heap}}
    IN IF more = S THEN S ELSE Reachable(more)

\* everything reachable from the container v is an array or a map, and their
\* leaves are integers
ArraysAndMaps(v) ==
    /\ v.t = "ref"
    /\ \A c \in Reachable({v.id}) :
        /\ IsSubclass(heap[c].t, "Sequence") \/ IsSubclass(heap[c].t, "Mapping")
        /\ \A i \in DOMAIN heap[c].items :
              heap[c].items[i].t \in {"ref", "int", "bool", "MyInt"}

----------------------------------------------------------------------------
(* The claims.                                                             *)

\* C1: after any top-level call, successful or failed, container_stack is empty.
C1_StackEmptyBetweenCalls == mode = "idle" => container_stack = {}

\* the visits, in order, that container c got in this top-level call while value
\* sharing was enabled: indexes into log
SharingVisits(c) ==
    {i \in DOMAIN log : log[i][2] = c /\ log[i][1] \in {"share", "ref"}}

\* C2: with value sharing enabled, of the visits a container gets in one top-level
\* call when it is reached more than once, the first writes the shareable marker
\* d8 1c and goes on to the body, storing the size of the active stack as the
\* share index, and every later one writes d8 1d and that index and no body.
C2_MarkerThenReference ==
    /\ [](\A c \in DOMAIN heap :
            Cardinality(SharingVisits(c)) >= 2 =>
                \A i \in SharingVisits(c) :
                    IF \A j \in SharingVisits(c) : i <= j
                    THEN /\ log[i][1] = "share"
                         /\ container_indexes[c] = log[i][3]
                    ELSE log[i][1] = "ref")
    /\ [][(ContainerVisit /\ value_sharing /\ SharingVisits(cur.id) # {}) =>
            /\ out' = out \o <<216, 29, container_indexes[cur.id]>>
            /\ frames' = frames
            /\ container_indexes' = container_indexes]_vars
    /\ [][(ContainerVisit /\ value_sharing /\ log' # log
              /\ log'[Len(log')][1] = "share") =>
            /\ out' = out \o <<216, 28, PrefixByte>>
            /\ BodyBegins]_vars

\* C3: with value sharing disabled, in a top-level call that began with an empty
\* active stack, a container encoder raises the cycle error exactly when the
\* container it is given is one of the containers that enclose it; it raises at
\* once, writing nothing; any other container is written in full, however often
\* it occurs.
C3_CycleErrorExactlyOnCycle ==
    [][(~value_sharing /\ entry.stack = {}) =>
        /\ ContainerVisit =>
              IF cur.id \in Enclosing
              THEN /\ result' = "cycle"
                   /\ mode' = "idle"
                   /\ out' = out
              ELSE /\ result' = "running"
                   /\ out' = Append(out, PrefixByte)
                   /\ BodyBegins
        /\ (result' = "cycle" /\ result # "cycle") =>
              ContainerVisit /\ cur.id \in Enclosing]_vars

\* C3 witness: a call that began with an empty stack and sharing disabled has
\* ended with the cycle error
C3_Witness ==
    /\ result = "cycle"
    /\ ~entry.sharing
    /\ entry.stack = {}
    /\ entry.op = "encode"
    /\ \E i \in DOMAIN log : log[i][1] = "plain"

\* C4: with value sharing enabled, encode() of a graph of arrays and maps never
\* raises, writes the body of each container at most once, and returns.
C4_SharingTerminates ==
    /\ [](( /\ entry.op = "encode"
            /\ entry.sharing
            /\ ArraysAndMaps(entry.root)) =>
              /\ result \in {"running", "ok"}
              /\ \A c \in DOMAIN heap : BodyCount(c) <= 1)
    /\ (( /\ entry.op = "encode"
          /\ entry.sharing
          /\ ArraysAndMaps(entry.root)
          /\ mode # "idle") ~> (mode = "idle" /\ result = "ok"))

\* C4 witness: encode() of a container that contains itself has returned, with
\* value sharing enabled
C4_Witness ==
    /\ mode = "idle"
    /\ result = "ok"
    /\ entry.op = "encode"
    /\ entry.sharing
    /\ ArraysAndMaps(entry.root)
    /\ \E i \in DOMAIN log : log[i][1] = "ref" /\ log[i][2] = entry.root.id
    /\ BodyCount(entry.root.id) = 1

\* an encode() of an empty list or dict with the default table has ended
EmptyContainerEncoded ==
    /\ mode = "idle"
    /\ entry.op = "encode"
    /\ entry.root.t = "ref"
    /\ heap[entry.root.id].items = <<>>
    /\ heap[entry.root.id].t \in {"list", "dict"}
    /\ encoders = default_encoders

\* the length-prefix byte of an empty list (80) or dict (a0)
EmptyPrefix == IF heap[entry.root.id].t = "list" THEN 128 ELSE 160

\* C5 as stated: encoding an empty array writes exactly 80 and an empty map exactly
\* a0, with value sharing enabled or disabled.
C5_Original ==
    EmptyContainerEncoded => result = "ok" /\ out = <<EmptyPrefix>>

\* C5 as amended: encoding an empty array (map) succeeds and writes exactly 80 (a0)
\* with value sharing disabled; with value sharing enabled it writes d8 1c 80
\* (d8 1c a0) when the container has no share index yet, and d8 1d and the index
\* when it has one.
C5_EmptyContainer ==
    EmptyContainerEncoded =>
        /\ result = "ok"
        /\ IF ~entry.sharing THEN out = <<EmptyPrefix>>
           ELSE IF entry.root.id \notin DOMAIN entry.indexes
                THEN out = <<216, 28, EmptyPrefix>>
                ELSE out = <<216, 29, entry.indexes[entry.root.id]>>

\* C5 witness: an empty map was encoded with value sharing enabled
C5_Witness ==
    /\ EmptyContainerEncoded
    /\ entry.sharing
    /\ out = <<216, 28, 160>>

\* C7: encode() uses the encoder of the table entry whose key is the runtime type
\* when there is one, else that of the first entry, in insertion order, whose key
\* is a supertype of it, else raises the unsupported-type error and runs no
\* encoder; the table holds each type once, a caller's entry in the place of the
\* built-in one.
C7_TwoPhaseDispatch ==
    /\ [][mode = "call" =>
            LET t == TypeOf(cur)
                exact == {i \in DOMAIN encoders : encoders[i][1] = t}
                super == {i \in DOMAIN encoders : IsSubclass(t, encoders[i][1])}
            IN IF exact # {}
               THEN \A i \in exact : encoder' = encoders[i][2]
               ELSE IF super # {}
               THEN \A i \in super :
                       (\A j \in super : i <= j) => encoder' = encoders[i][2]
               ELSE /\ result' = "unsupported"
                    /\ mode' = "idle"
                    /\ encoder' = encoder
                    /\ out' = out]_vars
    /\ [](/\ \A i, j \in DOMAIN encoders :
                encoders[i][1] = encoders[j][1] => i = j
          /\ \E overrides \in Overrides :
                /\ \A k \in DOMAIN overrides :
                      \E i \in DOMAIN encoders : encoders[i] = overrides[k]
                /\ \A i \in DOMAIN encoders :
                      \/ \E k \in DOMAIN overrides : encoders[i] = overrides[k]
                      \/ /\ i \in DOMAIN default_encoders
                         /\ encoders[i] = default_encoders[i])

\* C7 witness: encode() of an instance of a subclass of int, which has no entry
\* of its own, has run encode_int, found by the scan
C7_Witness ==
    /\ mode = "frame"
    /\ cur = MyIntV
    /\ encoder = "encode_int"
    /\ \A i \in DOMAIN encoders : encoders[i][1] # "MyInt"

\* C8: when encode_semantic(tag, payload, disable_value_sharing=True) is over,
\* value_sharing and the share-index map are what they were before the call, and
\* no container of the payload got a shareable marker or a back-reference.
C8_SharingSuspendedForPayloadOnly ==
    (mode = "idle" /\ entry.op = "encode_semantic" /\ entry.disable) =>
        /\ value_sharing = entry.sharing
        /\ container_indexes = entry.indexes
        /\ \A i \in DOMAIN log : log[i][1] \notin {"share", "ref"}

\* C9: a top-level encode() call starts with an empty share-index map and an empty
\* active stack, so that with value sharing enabled its root container is written
\* with the shareable marker.
C9_StateResetBetweenCalls ==
    /\ (mode = "call" /\ frames = <<>>) =>
          container_indexes = <<>> /\ container_stack = {}
    /\ ( /\ mode = "idle"
         /\ result = "ok"
         /\ entry.op = "encode"
         /\ entry.sharing
         /\ ArraysAndMaps(entry.root)
         /\ encoders = default_encoders) =>
            SubSeq(out, 1, 2) = <<216, 28>>

\* C10: within one top-level call no two containers get the same share index.
C10_DistinctShareIndexes ==
    \A a, b \in SharedInCall :
        a # b => container_indexes[a] # container_indexes[b]

====
